---- MODULE Spec2Model ----
(***************************************************************************)
(* A model of code_models/gradcam.py: the GradCAM object (its constructor, *)
(* compute_heatmap and overlay_heatmap).                                   *)
(*                                                                         *)
(* Tensors are functions from index tuples to integers.  Real-valued       *)
(* intermediate results are kept as integer numerators over a common       *)
(* denominator that the operators state, so every comparison is exact.     *)
(* The services of the tensor and image libraries (layer lookup, slicing,  *)
(* bilinear resize, colour map, weighted add) are modelled by what they    *)
(* compute; the automatic differentiation is an input: the activations and *)
(* the gradients of one query are drawn from bounded tensor sets.          *)
(***************************************************************************)
EXTENDS Integers, Sequences, FiniteSets, TLC

VARIABLES
    pc,     \* "new" before __init__, "ready" after it returned, "failed" after it raised
    self,   \* the attributes of the GradCAM object: a function from attribute name to value
    ctor,   \* the arguments __init__ was called with (held by the caller)
    call    \* the last call seen by the caller: operation, arguments, locals, result or error

vars == <<pc, self, ctor, call>>

----------------------------------------------------------------------------
(* Bounds of the model *)

\* the number of layers before the flattening layer and the classifier head
MaxBody == 2
\* the largest target_layer_min_shape a caller passes
MaxMinShape == 3
\* class indexes are drawn from -MaxIdx .. MaxIdx
MaxIdx == 3
\* images are 1..MaxImg pixels high and wide
MaxImg == 2

----------------------------------------------------------------------------
(* Arithmetic helpers *)

RECURSIVE Sum(_, _)
Sum(f, S) ==
    IF S = {} THEN 0
    ELSE LET x == CHOOSE y \in S : TRUE IN f[x] + Sum(f, S \ {x})

Min(S) == CHOOSE x \in S : \A y \in S : x <= y
Max(S) == CHOOSE x \in S : \A y \in S : x >= y

RECURSIVE Pow2(_)
Pow2(n) == IF n <= 0 THEN 1 ELSE 2 * Pow2(n - 1)

Range(f) == {f[x] : x \in DOMAIN f}

----------------------------------------------------------------------------
(* The classifier: a sequence of layers.  A layer carries its name, its     *)
(* output_shape (the batch dimension None is written 0), and, for a Dense  *)
(* layer, the configuration and weights the constructor reads.             *)

NoWeights == [kernel |-> <<>>, bias |-> <<>>]

Layer(name, shape) ==
    [name |-> name, output_shape |-> shape, activation |-> "relu",
     units |-> 0, weights |-> NoWeights]

\* a Dense layer applied to the output of `prev`: the last dimension becomes units
Dense(name, units, activation, weights, prev) ==
    [name |-> name,
     output_shape |-> [prev.output_shape EXCEPT ![Len(prev.output_shape)] = units],
     activation |-> activation, units |-> units, weights |-> weights]

\* the weights of a freshly built Dense layer (before set_weights): the
\* initialiser's values, here a zero kernel and a zero bias
FreshWeights(units, prev) ==
    LET fin == prev.output_shape[Len(prev.output_shape)]
    IN  [kernel |-> [f \in 1..fin |-> [c \in 1..units |-> 0]],
         bias |-> [c \in 1..units |-> 0]]

\* the lookup model.get_layer(name) does: the first layer of that name, 0 if none
RECURSIVE LayerIndexFrom(_, _, _)
LayerIndexFrom(layers, name, i) ==
    IF i > Len(layers) THEN 0
    ELSE IF layers[i].name = name THEN i
    ELSE LayerIndexFrom(layers, name, i + 1)

get_layer(model, name) == LayerIndexFrom(model.layers, name, 1)

\* layer.get_config(): the configuration a Dense layer is rebuilt from
get_config(layer) ==
    [name |-> layer.name, units |-> layer.units, activation |-> layer.activation]

----------------------------------------------------------------------------
(* The forward pass of the final Dense stage, on the feature vector x that  *)
(* the layer before it emits.                                              *)

\* x . kernel + bias, before the activation
Logits(weights, x) ==
    [c \in DOMAIN weights.bias |->
        Sum([f \in DOMAIN x |-> x[f] * weights.kernel[f][c]], DOMAIN x) + weights.bias[c]]

\* softmax in fixed point: base 2, in thousandths
Softmax(z) ==
    LET lo == Min(Range(z))
        e == [c \in DOMAIN z |-> Pow2(z[c] - lo)]
    IN  [c \in DOMAIN z |-> (1000 * e[c]) \div Sum(e, DOMAIN z)]

Activation(name, z) ==
    CASE name = "softmax" -> Softmax(z)
      [] name = "relu" -> [c \in DOMAIN z |-> IF z[c] > 0 THEN z[c] ELSE 0]
      [] OTHER -> z

\* model.output for the features x
ModelOutput(model, x) ==
    LET last == model.layers[Len(model.layers)]
    IN  Activation(last.activation, Logits(last.weights, x))

----------------------------------------------------------------------------
(* __init__, step 1: the model the object works on (source lines 17-31)    *)

set_weights(layer, weights) == [layer EXCEPT !.weights = weights]

\* The rebuilt layer with the stored weights never installed.
NewLayerFresh(model) ==
    LET n == Len(model.layers)
        config == [get_config(model.layers[n]) EXCEPT
                       !.activation = "linear", !.name = "new_layer"]
    IN  Dense(config.name, config.units, config.activation,
              FreshWeights(config.units, model.layers[n - 1]), model.layers[n - 1])

\* lines 20-27: the Dense layer rebuilt from the last layer's configuration with
\* a linear activation and the name new_layer, on the output of layers[-2],
\* and given the stored weights
NewLayer(model) ==
    LET n == Len(model.layers)
        weights == model.layers[n].weights
        config == [get_config(model.layers[n]) EXCEPT
                       !.activation = "linear", !.name = "new_layer"]
        new_layer == Dense(config.name, config.units, config.activation,
                           FreshWeights(config.units, model.layers[n - 1]),
                           model.layers[n - 1])
    IN  set_weights(new_layer, weights)

\* lines 17-31: self.model
ModelInUse(model) ==
    LET n == Len(model.layers)
        config == get_config(model.layers[n])
    IN  IF config.activation = "softmax"
        THEN [layers |-> SubSeq(model.layers, 1, n - 1) \o <<NewLayer(model)>>]
        ELSE model

----------------------------------------------------------------------------
(* __init__, step 2: the target layer (source lines 35-48)                 *)

NoneName == "None"

\* The comparison made strict.
QualifiesStrict(layer, target_layer_min_shape) ==
    /\ Len(layer.output_shape) = 4
    /\ layer.output_shape[2] > target_layer_min_shape

\* line 40
Qualifies(layer, target_layer_min_shape) ==
    /\ Len(layer.output_shape) = 4
    /\ layer.output_shape[2] >= target_layer_min_shape

\* The scan run from the input side instead.
RECURSIVE ScanForward(_, _, _)
ScanForward(layers, i, target_layer_min_shape) ==
    IF i = 0 THEN 0
    ELSE LET j == Len(layers) + 1 - i
         IN  IF Qualifies(layers[j], target_layer_min_shape) THEN j
             ELSE ScanForward(layers, i - 1, target_layer_min_shape)

\* lines 38-42: for layer in reversed(layers), from position i down; the index
\* of the first layer that qualifies, 0 when the loop ends without one
RECURSIVE ScanReversed(_, _, _)
ScanReversed(layers, i, target_layer_min_shape) ==
    IF i = 0 THEN 0
    ELSE IF Qualifies(layers[i], target_layer_min_shape) THEN i
    ELSE ScanReversed(layers, i - 1, target_layer_min_shape)

\* The name of the layer's output tensor taken for the layer's name.
OutputNameOf(layer) == "Relu:0"

\* line 41: the name stored for the layer found
NameOf(layer) == layer.name

\* A name checked against the model, the last layer standing in for a
\* missing one.
StoredNameChecked(model, target_layer_name) ==
    IF get_layer(model, target_layer_name) # 0 THEN target_layer_name
    ELSE model.layers[Len(model.layers)].name

\* line 48: the explicit name is stored as given
StoredName(model, target_layer_name) == target_layer_name

NoCall == [op |-> "none", err |-> ""]

\* GradCAM.__init__(model, target_layer_name, target_layer_min_shape)
Construct ==
    /\ pc = "new"
    /\ LET model == ModelInUse(ctor.model)
           found == ScanReversed(model.layers, Len(model.layers),
                                 ctor.target_layer_min_shape)
       IN  IF ctor.target_layer_name = NoneName
           THEN IF found # 0
                THEN /\ self' = [model |-> model,
                                 target_layer_name |-> NameOf(model.layers[found])]
                     /\ pc' = "ready"
                     /\ call' = [op |-> "__init__", err |-> ""]
                ELSE /\ self' = [model |-> model]
                     /\ pc' = "failed"
                     /\ call' = [op |-> "__init__", err |-> "NoSpatialLayerFound"]
           ELSE /\ self' = [model |-> model,
                            target_layer_name |->
                                StoredName(model, ctor.target_layer_name)]
                /\ pc' = "ready"
                /\ call' = [op |-> "__init__", err |-> ""]
    /\ UNCHANGED ctor

----------------------------------------------------------------------------
(* compute_heatmap (source lines 50-103)                                   *)

Positions(h, w) == (1..h) \X (1..w)

\* the index set of the unbatched output of a layer of shape <<None, h, w, c>>
TensorIdx(shape) == (1..shape[2]) \X (1..shape[3]) \X (1..shape[4])

Tensors(shape, V) == [TensorIdx(shape) -> V]

\* the size of axis 1 of model.output, the axis predictions[:, classIdx]
\* indexes: the number of classes
NumClasses(model) == model.layers[Len(model.layers)].output_shape[2]

\* An index check that rejects every negative index.
ClassColumnStrict(n, classIdx) ==
    IF classIdx >= 0 /\ classIdx < n THEN classIdx ELSE -1

\* line 66, predictions[:, classIdx] on n columns: the column read, counted
\* from 0, or -1 when the slice is out of bounds.  A negative index counts
\* from the last column, as in every tensor slice.
ClassColumn(n, classIdx) ==
    IF classIdx >= 0 /\ classIdx < n THEN classIdx
    ELSE IF classIdx < 0 /\ classIdx >= -n THEN n + classIdx
    ELSE -1

\* tf.cast(x > 0, "float32")
CastPositive(x) == IF x > 0 THEN 1 ELSE 0

\* A gate on the sign of the gradient alone.
GuidedGradsNoActGate(convOutputs, grads) ==
    [i \in DOMAIN grads |-> CastPositive(grads[i]) * grads[i]]

\* lines 72-74
GuidedGrads(convOutputs, grads) ==
    [i \in DOMAIN grads |->
        CastPositive(convOutputs[i]) * CastPositive(grads[i]) * grads[i]]

\* line 85, tf.reduce_mean(guidedGrads, axis=(0, 1)): one weight per channel,
\* num[ch] / den
ReduceMean(guidedGrads, shape) ==
    LET P == Positions(shape[2], shape[3])
    IN  [num |-> [ch \in 1..shape[4] |->
                     Sum([p \in P |-> guidedGrads[<<p[1], p[2], ch>>]], P)],
         den |-> shape[2] * shape[3]]

\* line 86, the sum over the channels of weights * convOutputs: num[p] / den
WeightedSum(weights, convOutputs, shape) ==
    LET C == 1..shape[4]
    IN  [num |-> [p \in Positions(shape[2], shape[3]) |->
                     Sum([ch \in C |-> weights.num[ch] * convOutputs[<<p[1], p[2], ch>>]], C)],
         den |-> weights.den]

\* cv2.resize, bilinear, along one axis: destination index d (from 0) of dsize
\* reads source indexes i0 and i1 (from 0) of ssize with the weights
\* (2 * dsize - r) / (2 * dsize) and r / (2 * dsize)
LinearCoef(d, ssize, dsize) ==
    LET num == (2 * d + 1) * ssize - dsize
        den == 2 * dsize
        s == num \div den
    IN  IF s < 0 THEN [i0 |-> 0, i1 |-> 0, r |-> 0]
        ELSE IF s >= ssize - 1 THEN [i0 |-> ssize - 1, i1 |-> ssize - 1, r |-> 0]
        ELSE [i0 |-> s, i1 |-> s + 1, r |-> num - s * den]

\* line 92, cv2.resize(cam, (w, h)): the h x w map, num[p] / den
Resize(cam, shape, h, w) ==
    [num |-> [p \in Positions(h, w) |->
                 LET cy == LinearCoef(p[1] - 1, shape[2], h)
                     cx == LinearCoef(p[2] - 1, shape[3], w)
                     at(y, x) == cam.num[<<y + 1, x + 1>>]
                 IN  (2 * h - cy.r) * (2 * w - cx.r) * at(cy.i0, cx.i0)
                     + (2 * h - cy.r) * cx.r * at(cy.i0, cx.i1)
                     + cy.r * (2 * w - cx.r) * at(cy.i1, cx.i0)
                     + cy.r * cx.r * at(cy.i1, cx.i1)],
     den |-> cam.den * 2 * h * 2 * w]

\* A normalisation that leaves the minimum in.
ScaledNoMin(heatmap, epsInv, absorbed) ==
    LET lo == Min(Range(heatmap.num))
        hi == Max(Range(heatmap.num))
    IN  [p \in DOMAIN heatmap.num |->
            IF absorbed /\ hi > lo
            THEN (heatmap.num[p] * 255) \div (hi - lo)
            ELSE (heatmap.num[p] * epsInv * 255)
                     \div ((hi - lo) * epsInv + heatmap.den)]

\* lines 97-100 before the cast: floor(numer / denom * 255), with eps =
\* 1 / epsInv.  In floating point the sum (max - min) + eps either keeps eps
\* or rounds it away (absorbed), which can only happen when max > min.
Scaled(heatmap, epsInv, absorbed) ==
    LET lo == Min(Range(heatmap.num))
        hi == Max(Range(heatmap.num))
    IN  [p \in DOMAIN heatmap.num |->
            IF absorbed /\ hi > lo
            THEN ((heatmap.num[p] - lo) * 255) \div (hi - lo)
            ELSE ((heatmap.num[p] - lo) * epsInv * 255)
                     \div ((hi - lo) * epsInv + heatmap.den)]

\* line 100, .astype("uint8")
AsUint8(x) == x % 256

\* An attribute kept from the query.
SelfCaching(s, heatmap) ==
    [a \in DOMAIN s \cup {"heatmap"} |-> IF a = "heatmap" THEN heatmap ELSE s[a]]

\* the attributes of the object after a query that computed `result`:
\* neither method assigns to self
SelfAfterQuery(s, result) == s

ComputeHeatmapOn(Idxs, Sizes, V, EpsInvs) ==
    /\ pc = "ready"
    /\ call.op = "none"
    /\ \E classIdx \in Idxs, size \in Sizes :
         LET li == get_layer(self.model, self.target_layer_name)
             col == ClassColumn(NumClasses(self.model), classIdx)
             in == [classIdx |-> classIdx, image |-> size]
             Raise(e) ==
                 /\ call' = [op |-> "compute_heatmap", err |-> e, in |-> in]
                 /\ self' = SelfAfterQuery(self, <<>>)
         IN  IF li = 0 THEN Raise("UnknownLayer")
             ELSE IF col = -1 THEN Raise("InvalidClassIndex")
             ELSE IF Len(self.model.layers[li].output_shape) # 4
                  THEN Raise("InvalidReduction")
             ELSE LET shape == self.model.layers[li].output_shape
                  IN  \E convOutputs \in Tensors(shape, V), grads \in Tensors(shape, V),
                         epsInv \in EpsInvs, absorbed \in BOOLEAN :
                        \E guidedGrads \in {GuidedGrads(convOutputs, grads)} :
                        \E weights \in {ReduceMean(guidedGrads, shape)} :
                        \E cam \in {WeightedSum(weights, convOutputs, shape)} :
                        \E resized \in {Resize(cam, shape, size[1], size[2])} :
                        \E scaled \in {Scaled(resized, epsInv, absorbed)} :
                        \E heatmap \in {[p \in DOMAIN scaled |-> AsUint8(scaled[p])]} :
                            /\ call' = [op |-> "compute_heatmap", err |-> "", in |-> in,
                                        column |-> col,
                                        convOutputs |-> convOutputs, grads |-> grads,
                                        guidedGrads |-> guidedGrads, weights |-> weights,
                                        resized |-> resized, scaled |-> scaled,
                                        ret |-> heatmap]
                            /\ self' = SelfAfterQuery(self, heatmap)
    /\ UNCHANGED <<pc, ctor>>

----------------------------------------------------------------------------
(* overlay_heatmap (source lines 105-114)                                  *)

\* The palette of a colour map: the table itself belongs to the image
\* library; it is modelled by its colours (blue, green, red) at the values
\* 0, 128 and 255, with linear interpolation between them.
Palette(colormap) ==
    IF colormap = "VIRIDIS"
    THEN <<<<84, 1, 68>>, <<140, 145, 33>>, <<37, 231, 253>>>>
    ELSE <<<<128, 0, 0>>, <<128, 255, 124>>, <<0, 0, 128>>>>

ColorOf(colormap, v) ==
    LET pal == Palette(colormap)
    IN  [k \in 1..3 |->
            IF v <= 128
            THEN pal[1][k] + ((pal[2][k] - pal[1][k]) * v) \div 128
            ELSE pal[2][k] + ((pal[3][k] - pal[2][k]) * (v - 128)) \div 127]

\* line 109, cv2.applyColorMap(heatmap, colormap)
applyColorMap(heatmap, colormap) ==
    [p \in DOMAIN heatmap |-> ColorOf(colormap, heatmap[p])]

\* n / d rounded to the nearest integer, halves to the even one
Round(n, d) ==
    LET q == n \div d
        r == n - q * d
    IN  IF 2 * r < d THEN q
        ELSE IF 2 * r > d THEN q + 1
        ELSE IF q % 2 = 0 THEN q ELSE q + 1

Saturate(x) == IF x < 0 THEN 0 ELSE IF x > 255 THEN 255 ELSE x

\* The two weights the wrong way round.
addWeightedSwapped(src1, alpha10, src2, beta10) ==
    [p \in DOMAIN src1 |->
        [k \in 1..3 |-> Saturate(Round(src1[p][k] * beta10 + src2[p][k] * alpha10, 10))]]

\* line 110, cv2.addWeighted(src1, alpha, src2, beta, 0) on two images of one
\* size, the weights in tenths
addWeighted(src1, alpha10, src2, beta10) ==
    [p \in DOMAIN src1 |->
        [k \in 1..3 |-> Saturate(Round(src1[p][k] * alpha10 + src2[p][k] * beta10, 10))]]

Images(size, Colours) == [Positions(size[1], size[2]) -> Colours]

OverlayHeatmapOn(HeatSizes, ImgSizes, HeatVals, Colours, Alphas, Colormaps) ==
    /\ pc = "ready"
    /\ call.op = "none"
    /\ \E hsize \in HeatSizes, isize \in ImgSizes :
       \E heatmap \in Images(hsize, HeatVals), image \in Images(isize, Colours),
          alpha10 \in Alphas, colormap \in Colormaps :
         LET in == [heatmap |-> heatmap, image |-> image, alpha10 |-> alpha10,
                    colormap |-> colormap]
         IN  \E colorized \in {applyColorMap(heatmap, colormap)} :
               IF hsize # isize
               THEN /\ call' = [op |-> "overlay_heatmap", err |-> "SizeMismatch", in |-> in]
                    /\ self' = SelfAfterQuery(self, <<>>)
               ELSE \E output \in {addWeighted(image, alpha10, colorized, 10 - alpha10)} :
                    /\ call' = [op |-> "overlay_heatmap", err |-> "", in |-> in,
                                ret |-> <<colorized, output>>]
                    /\ self' = SelfAfterQuery(self, output)
    /\ UNCHANGED <<pc, ctor>>

\* the caller drops the value the last call returned (or the error it raised)
Discard ==
    /\ call.op # "none"
    /\ pc # "new"
    /\ call' = NoCall
    /\ UNCHANGED <<pc, self, ctor>>

----------------------------------------------------------------------------
(* The classifiers and constructor arguments a caller passes               *)

LayerNames == <<"layer_1", "layer_2", "layer_3", "layer_4", "layer_5", "layer_6">>

\* output shapes of the layers before the flattening layer: two feature maps
\* (height 2, one channel; height 1, two channels) and a flat one
BodyShapes == {<<0, 2, 1, 1>>, <<0, 1, 1, 2>>, <<0, 2>>}
FlatShape == <<0, 2>>

\* the heads: two classes and three classes, on two features
Head2 == [kernel |-> <<<<1, -1>>, <<2, 0>>>>, bias |-> <<0, 1>>]
Head3 == [kernel |-> <<<<0, 1, -1>>, <<-1, 1, 2>>>>, bias |-> <<-1, 0, 1>>]
HeadWeights == {Head2, Head3}
HeadActivations == {"softmax", "relu"}

Classifier(shapes, activation, weights) ==
    LET n == Len(shapes)
        body == [i \in 1..n |-> Layer(LayerNames[i], shapes[i])]
        flat == Layer(LayerNames[n + 1], FlatShape)
        head == Dense(LayerNames[n + 2], Len(weights.bias), activation, weights, flat)
    IN  [layers |-> body \o <<flat, head>>]

Classifiers ==
    {Classifier(shapes, a, w) :
        shapes \in UNION {[1..n -> BodyShapes] : n \in 0..MaxBody},
        a \in HeadActivations, w \in HeadWeights}

TargetNames == {NoneName, "layer_2", "bogus"}

Init ==
    /\ pc = "new"
    /\ self = [a \in {} |-> 0]
    /\ ctor \in [model : Classifiers, target_layer_name : TargetNames,
                 target_layer_min_shape : 1..MaxMinShape]
    /\ call = NoCall

ImageSizes == (1..MaxImg) \X (1..MaxImg)
SmallSizes == {<<1, 1>>, <<1, 2>>}

ComputeHeatmap == ComputeHeatmapOn(-MaxIdx..MaxIdx, SmallSizes, {-1, 1}, {1000})

OverlayHeatmap ==
    OverlayHeatmapOn(SmallSizes, SmallSizes, {0, 255},
                     {<<0, 0, 0>>, <<10, 200, 77>>}, {0, 5, 10}, {"VIRIDIS"})

Next == Construct \/ ComputeHeatmap \/ OverlayHeatmap \/ Discard

Spec == Init /\ [][Next]_vars

----------------------------------------------------------------------------
(* The queries alone, on a few classifiers and larger tensors and images   *)

QueryShapes == {<<0, 2, 2, 1>>, <<0, 1, 2, 2>>, <<0, 1, 1, 1>>}

QueryClassifiers ==
    {Classifier(<<shape>>, "softmax", Head2) : shape \in QueryShapes}

InitQuery ==
    /\ pc = "new"
    /\ self = [a \in {} |-> 0]
    /\ ctor \in [model : QueryClassifiers, target_layer_name : {NoneName},
                 target_layer_min_shape : {1}]
    /\ call = NoCall

ComputeHeatmapQuery == ComputeHeatmapOn({-1, 0}, ImageSizes, {-1, 0, 1}, {100, 1000})

OverlaySizes == {<<1, 1>>, <<1, 2>>, <<2, 1>>}

OverlayHeatmapQuery ==
    OverlayHeatmapOn(OverlaySizes, OverlaySizes, {0, 100, 255},
                     {<<0, 0, 0>>, <<10, 200, 77>>, <<255, 255, 255>>},
                     {0, 5, 10, 15}, {"VIRIDIS", "JET"})

NextQuery == Construct \/ ComputeHeatmapQuery \/ OverlayHeatmapQuery \/ Discard

SpecQuery == InitQuery /\ [][NextQuery]_vars

----------------------------------------------------------------------------
(* Properties                                                              *)

\* the predicate of the claims: a rank-4 output whose dimension 1 is at least m
Rank4AtLeast(layer, m) ==
    Len(layer.output_shape) = 4 /\ layer.output_shape[2] >= m

Auto == ctor.target_layer_name = NoneName

Computed == call.op = "compute_heatmap" /\ call.err = ""

HasLayerNamed(model, name) == \E i \in 1..Len(model.layers) : model.layers[i].name = name

TargetIsFeatureMap ==
    \E i \in 1..Len(self.model.layers) :
        /\ self.model.layers[i].name = self.target_layer_name
        /\ Len(self.model.layers[i].output_shape) = 4

\* C2 as claimed, on an object whose target layer is a feature map of the model:
\* compute_heatmap fails with InvalidClassIndex for every classIdx >= the
\* number of classes and every classIdx < 0, and returns no heatmap.
C2_Original ==
    (call.op = "compute_heatmap"
        /\ TargetIsFeatureMap
        /\ (call.in.classIdx >= NumClasses(self.model) \/ call.in.classIdx < 0)) =>
        call.err = "InvalidClassIndex"

\* C2 as amended: with n classes, compute_heatmap returns no heatmap for a
\* classIdx >= n or < -n (it fails with InvalidClassIndex once the target layer
\* has been fetched, with UnknownLayer before that); a classIdx in -n .. -1 is
\* not rejected: it counts from the last class, and the heatmap returned is
\* that of class n + classIdx.
C2_InvalidClassIndex ==
    call.op = "compute_heatmap" =>
        LET n == NumClasses(self.model)
            k == call.in.classIdx
        IN  /\ (k >= n \/ k < -n) =>
                /\ call.err # ""
                /\ HasLayerNamed(self.model, self.target_layer_name) =>
                       call.err = "InvalidClassIndex"
            /\ (k >= -n /\ k < n) => call.err # "InvalidClassIndex"
            /\ call.err = "" => call.column = (IF k < 0 THEN n + k ELSE k)

\* a heatmap returned for the index -1: that of the last class
C2_Witness ==
    /\ Computed
    /\ call.in.classIdx = -1
    /\ call.column = NumClasses(self.model) - 1

C4_ExplicitNameUnchecked ==
    /\ (pc # "new" /\ ~Auto) =>
           pc = "ready" /\ self.target_layer_name = ctor.target_layer_name
    /\ call.err = "UnknownLayer" => call.op = "compute_heatmap"
    /\ (call.op = "compute_heatmap"
           /\ ~HasLayerNamed(self.model, self.target_layer_name)) =>
           call.err = "UnknownLayer"

\* a query has failed on a name that construction accepted
C4_Witness ==
    /\ pc = "ready"
    /\ ctor.target_layer_name = "bogus" /\ self.target_layer_name = "bogus"
    /\ call.op = "compute_heatmap" /\ call.err = "UnknownLayer"

Features == [1..2 -> {-1, 0, 1}]

C6_HeatmapRange ==
    Computed =>
        LET lo == Min(Range(call.resized.num))
            hi == Max(Range(call.resized.num))
        IN  /\ call.resized.den > 0
            /\ \A p \in DOMAIN call.ret :
                   /\ call.scaled[p] >= 0 /\ call.scaled[p] <= 255
                   /\ call.ret[p] = call.scaled[p]
            /\ hi = lo => \A p \in DOMAIN call.ret : call.ret[p] = 0
            /\ (\A i \in DOMAIN call.grads : call.grads[i] = 0) =>
                   \A p \in DOMAIN call.ret : call.ret[p] = 0

\* a heatmap was returned for a resized map that is constant and not zero
C6_Witness ==
    /\ Computed
    /\ Cardinality(Range(call.resized.num)) = 1
    /\ 0 \notin Range(call.resized.num)
    /\ Cardinality(DOMAIN call.ret) > 1

\* C7: on a heatmap and an image of equal size, the blended output is the
\* image when alpha is 1.0 and the colorized heatmap when alpha is 0.0.
C7_BlendBoundaries ==
    (call.op = "overlay_heatmap" /\ call.err = "") =>
        /\ call.in.alpha10 = 10 => call.ret[2] = call.in.image
        /\ call.in.alpha10 = 0 => call.ret[2] = call.ret[1]

\* an overlay with alpha 1.0 returned the image, which is not the colorized heatmap
C7_Witness ==
    /\ call.op = "overlay_heatmap" /\ call.err = ""
    /\ call.in.alpha10 = 10
    /\ call.ret[2] = call.in.image
    /\ call.ret[2] # call.ret[1]

\* C8: once construction has returned, no step changes the object: it keeps
\* its two attributes, the model in use and the target layer name, and
\* acquires no other.
C8_ObjectImmutable ==
    [][pc = "ready" =>
          /\ pc' = "ready"
          /\ self' = self
          /\ DOMAIN self' = {"model", "target_layer_name"}]_vars

\* a query has returned a heatmap and the object is as construction left it
C8_Witness ==
    /\ Computed
    /\ DOMAIN self = {"model", "target_layer_name"}
    /\ self.model = ModelInUse(ctor.model)

\* C9: each guided gradient is the gradient where the activation and the
\* gradient are both > 0 and zero elsewhere; each channel weight is the mean
\* of the guided gradients over the positions; all of them are >= 0.
C9_GuidedGradients ==
    Computed =>
        /\ \A i \in DOMAIN call.grads :
               /\ call.guidedGrads[i] =
                      (IF call.convOutputs[i] > 0 /\ call.grads[i] > 0
                       THEN call.grads[i] ELSE 0)
               /\ call.guidedGrads[i] >= 0
        /\ call.weights.den = Cardinality({<<i[1], i[2]>> : i \in DOMAIN call.grads})
        /\ \A ch \in DOMAIN call.weights.num :
               LET I == {i \in DOMAIN call.grads : i[3] = ch}
               IN  /\ call.weights.num[ch] = Sum([i \in I |-> call.guidedGrads[i]], I)
                   /\ call.weights.num[ch] >= 0

\* a positive gradient was kept at one element and dropped at an element
\* whose activation is not positive
C9_Witness ==
    /\ Computed
    /\ \E i, j \in DOMAIN call.grads :
           /\ call.convOutputs[i] > 0 /\ call.grads[i] > 0 /\ call.guidedGrads[i] > 0
           /\ call.convOutputs[j] <= 0 /\ call.grads[j] > 0 /\ call.guidedGrads[j] = 0

\* C10: with no explicit target layer name, the target layer name of a
\* constructed object is the name of a layer of its model in use, and
\* compute_heatmap never fails with UnknownLayer.
C10_AutoNameInModel ==
    (pc = "ready" /\ Auto) =>
        /\ HasLayerNamed(self.model, self.target_layer_name)
        /\ call.op = "compute_heatmap" => call.err # "UnknownLayer"

\* a heatmap computed on a linearized softmax classifier with the layer found
\* by the scan
C10_Witness ==
    /\ pc = "ready" /\ Auto /\ Computed
    /\ self.model.layers[Len(self.model.layers)].name = "new_layer"

====
